---- MODULE Spec2Model ----
(***************************************************************************)
(* Model of the error_processing crate: app::read_config (app.rs) and the  *)
(* entry point main (main.rs).                                             *)
(*                                                                         *)
(* The program is one thread; pc is its position.  The environment is the  *)
(* file config.txt (fsKind, fileBytes), the results of the open and read   *)
(* system calls, and the results of the writes println! makes to standard  *)
(* output (println! panics when such a write fails).  The crate is built   *)
(* with the default panic strategy (unwind), which is what catch_unwind in *)
(* main.rs relies on.                                                      *)
(*                                                                         *)
(* Text is kept as Rust keeps it: a String is a sequence of bytes that is  *)
(* valid UTF-8.  Standard output is a sequence of bytes in which the three *)
(* literal texts of main.rs are single tokens outside the byte range.      *)
(***************************************************************************)
EXTENDS Integers, Sequences, FiniteSets, TLC

VARIABLES
    fsKind,        \* what the path config.txt names: "missing", "denied", "file"
    fileBytes,     \* the bytes of the file
    pc,            \* position of the thread
    handles,       \* number of open handles on the file
    pos,           \* read offset of the open handle
    contents,      \* app.rs:6, the String read_config fills
    returned,      \* values read_config has returned to its caller, in call order
    outcomes,      \* how each call of read_config ended, in call order
    result,        \* main.rs:4, the value of catch_unwind: "none", "Ok", "Err"
    stdout,        \* bytes the process has written to standard output
    stderr,        \* panic messages written by the panic hook
    exitCode,      \* -1 while running, then the exit status of the process
    loaderCalls,   \* number of calls of read_config
    openCalls,     \* number of File::open attempts
    readCalls      \* number of read_to_string attempts

vars == <<fsKind, fileBytes, pc, handles, pos, contents, returned, outcomes,
          result, stdout, stderr, exitCode, loaderCalls, openCalls, readCalls>>

\* Longest file of the model.
MaxLen == 3

\* Bytes a file is made of: "\n", "a", and 0xC3 0xA9 (the two bytes of U+00E9).
FileAlphabet == {10, 97, 195, 169}

RECURSIVE SeqsUpTo(_, _)
SeqsUpTo(S, n) ==
    IF n = 0 THEN {<<>>}
    ELSE LET shorter == SeqsUpTo(S, n - 1)
         IN  shorter \cup {Append(s, b) : s \in {t \in shorter : Len(t) = n - 1}, b \in S}

Files == SeqsUpTo(FileAlphabet, MaxLen)

(***************************************************************************)
(* UTF-8, as read_to_string checks it (core::str::from_utf8).              *)
(***************************************************************************)
IsCont(b) == b >= 128 /\ b <= 191

Utf8Width(b) ==
    IF b < 128 THEN 1
    ELSE IF b >= 194 /\ b <= 223 THEN 2
    ELSE IF b >= 224 /\ b <= 239 THEN 3
    ELSE IF b >= 240 /\ b <= 244 THEN 4
    ELSE 0

SecondByteOk(first, second) ==
    IF first = 224 THEN second >= 160 /\ second <= 191
    ELSE IF first = 237 THEN second >= 128 /\ second <= 159
    ELSE IF first = 240 THEN second >= 144 /\ second <= 191
    ELSE IF first = 244 THEN second >= 128 /\ second <= 143
    ELSE IsCont(second)

RECURSIVE Utf8ValidFrom(_, _)
Utf8ValidFrom(s, i) ==
    IF i > Len(s) THEN TRUE
    ELSE LET w == Utf8Width(s[i])
         IN  /\ w > 0
             /\ i + w - 1 <= Len(s)
             /\ w >= 2 => SecondByteOk(s[i], s[i + 1])
             /\ \A k \in 2..(w - 1) : IsCont(s[i + k])
             /\ Utf8ValidFrom(s, i + w)

Utf8Valid(s) == Utf8ValidFrom(s, 1)

\* The characters (code points) of a valid UTF-8 byte sequence, in order.
RECURSIVE DecodeFrom(_, _)
DecodeFrom(s, i) ==
    IF i > Len(s) THEN <<>>
    ELSE LET w == Utf8Width(s[i])
             c == IF w = 1 THEN s[i]
                  ELSE IF w = 2 THEN (s[i] - 192) * 64 + (s[i + 1] - 128)
                  ELSE IF w = 3 THEN (s[i] - 224) * 4096 + (s[i + 1] - 128) * 64
                                     + (s[i + 2] - 128)
                  ELSE (s[i] - 240) * 262144 + (s[i + 1] - 128) * 4096
                       + (s[i + 2] - 128) * 64 + (s[i + 3] - 128)
         IN  <<c>> \o DecodeFrom(s, i + w)

Decode(s) == DecodeFrom(s, 1)

(***************************************************************************)
(* The texts main.rs prints.                                               *)
(***************************************************************************)
Newline == 10
HeaderText == 256     \* "Config Contents:"
SuccessText == 257    \* "Config file read successfully."
FailureText == 258    \* "An error occurred while reading the config file."

\* main.rs:6, println!("Config Contents:\n{}", config_contents)
ContentsLines(c) == <<HeaderText, Newline>> \o c \o <<Newline>>
\* main.rs:9
SuccessLine == <<SuccessText, Newline>>
\* main.rs:10
FailureLine == <<FailureText, Newline>>

\* What a failed println! may have written before the failing write.
ProperPrefixes(s) == {SubSeq(s, 1, k) : k \in 0..(Len(s) - 1)}

Init ==
    /\ fsKind \in {"missing", "denied", "file"}
    /\ fileBytes \in Files
    /\ fsKind = "missing" => fileBytes = <<>>
    /\ pc = "start"
    /\ handles = 0
    /\ pos = 0
    /\ contents = <<>>
    /\ returned = <<>>
    /\ outcomes = <<>>
    /\ result = "none"
    /\ stdout = <<>>
    /\ stderr = <<>>
    /\ exitCode = -1
    /\ loaderCalls = 0
    /\ openCalls = 0
    /\ readCalls = 0

(***************************************************************************)
(* app.rs: read_config                                                     *)
(***************************************************************************)

\* A panic inside read_config: the panic hook reports the message of expect
\* with the error, and the stack unwinds, which drops the String.
Panic(msg, error, outcome) ==
    /\ stderr' = Append(stderr, <<msg, error>>)
    /\ outcomes' = Append(outcomes, outcome)
    /\ contents' = <<>>
    /\ pc' = "panicked"

OpenSucceedsCreate == fsKind \in {"file", "missing"}

\* app.rs:5, File::open opens an existing, permitted file for reading.
OpenSucceeds == fsKind = "file"

\* app.rs:5, the error File::open returns
OpenError == IF fsKind = "missing" THEN "NotFound" ELSE "PermissionDenied"

StartOffsetStale == pos

\* app.rs:5, a newly opened handle reads from the start of the file.
StartOffset == 0

OpenWithRetry ==
    /\ pc = "open"
    /\ openCalls' = openCalls + 1
    /\ IF OpenSucceeds
       THEN /\ handles' = handles + 1
            /\ pos' = StartOffset
            /\ contents' = <<>>
            /\ pc' = "opened"
            /\ UNCHANGED <<outcomes, stderr>>
       ELSE IF openCalls = 0
       THEN UNCHANGED <<handles, pos, contents, pc, outcomes, stderr>>
       ELSE /\ Panic("Failed to open config file", OpenError, "open_failed")
            /\ UNCHANGED <<handles, pos>>
    /\ UNCHANGED <<fsKind, fileBytes, returned, result, stdout, exitCode,
                   loaderCalls, readCalls>>

\* app.rs:5-6, File::open(file_path).expect(..) and String::new()
Open ==
    /\ pc = "open"
    /\ openCalls' = openCalls + 1
    /\ IF OpenSucceeds
       THEN /\ handles' = handles + 1
            /\ pos' = StartOffset
            /\ contents' = <<>>
            /\ pc' = "opened"
            /\ UNCHANGED <<outcomes, stderr>>
       ELSE /\ Panic("Failed to open config file", OpenError, "open_failed")
            /\ UNCHANGED <<handles, pos>>
    /\ UNCHANGED <<fsKind, fileBytes, returned, result, stdout, exitCode,
                   loaderCalls, readCalls>>

\* app.rs:7, the call of file.read_to_string(&mut contents)
ReadToString ==
    /\ pc = "opened"
    /\ readCalls' = readCalls + 1
    /\ pc' = "reading"
    /\ UNCHANGED <<fsKind, fileBytes, handles, pos, contents, returned, outcomes,
                   result, stdout, stderr, exitCode, loaderCalls, openCalls>>

AppendChunkOverwrite(buf, chunk) == chunk

\* app.rs:7, read_to_string appends what each read delivers
AppendChunk(buf, chunk) == buf \o chunk

\* app.rs:7, one read of read_to_string's loop: it delivers one or more of the
\* bytes that follow the offset
ReadChunk ==
    /\ pc = "reading"
    /\ pos < Len(fileBytes)
    /\ \E n \in 1..(Len(fileBytes) - pos) :
          /\ contents' = AppendChunk(contents, SubSeq(fileBytes, pos + 1, pos + n))
          /\ pos' = pos + n
    /\ UNCHANGED <<fsKind, fileBytes, pc, handles, returned, outcomes, result,
                   stdout, stderr, exitCode, loaderCalls, openCalls, readCalls>>

UnwindLeak(h) == h

\* app.rs:10, `file` goes out of scope while the stack unwinds
UnwindDrop(h) == h - 1

FailReadKeepPartial(error) ==
    /\ returned' = Append(returned, contents)
    /\ outcomes' = Append(outcomes, "returned")
    /\ contents' = <<>>
    /\ handles' = handles - 1
    /\ pc' = "returned"
    /\ UNCHANGED stderr

\* app.rs:7-8, read_to_string returned Err and expect panics
FailRead(error) ==
    /\ Panic("Failed to read config file", error, "read_failed")
    /\ handles' = UnwindDrop(handles)
    /\ UNCHANGED returned

\* app.rs:7-8, a read fails with an I/O error
ReadIoError ==
    /\ pc = "reading"
    /\ FailRead("Os")
    /\ UNCHANGED <<fsKind, fileBytes, pos, result, stdout, exitCode,
                   loaderCalls, openCalls, readCalls>>

\* app.rs:7-8, a read delivers no byte (end of file); read_to_string checks
\* that what it read is UTF-8
ReadEnd ==
    /\ pc = "reading"
    /\ pos = Len(fileBytes)
    /\ IF Utf8Valid(contents)
       THEN /\ pc' = "return"
            /\ UNCHANGED <<handles, contents, returned, outcomes, stderr>>
       ELSE FailRead("InvalidData")
    /\ UNCHANGED <<fsKind, fileBytes, pos, result, stdout, exitCode,
                   loaderCalls, openCalls, readCalls>>

\* app.rs:9-10, `contents` moves to the caller and `file` goes out of scope
Return ==
    /\ pc = "return"
    /\ returned' = Append(returned, contents)
    /\ outcomes' = Append(outcomes, "returned")
    /\ contents' = <<>>
    /\ handles' = handles - 1
    /\ pc' = "returned"
    /\ UNCHANGED <<fsKind, fileBytes, pos, result, stdout, stderr, exitCode,
                   loaderCalls, openCalls, readCalls>>

(***************************************************************************)
(* main.rs: main                                                           *)
(***************************************************************************)

\* main.rs:4-5, the closure given to catch_unwind calls read_config
MainCall ==
    /\ pc = "start"
    /\ loaderCalls' = loaderCalls + 1
    /\ pc' = "open"
    /\ UNCHANGED <<fsKind, fileBytes, handles, pos, contents, returned, outcomes,
                   result, stdout, stderr, exitCode, openCalls, readCalls>>

\* main.rs:5, the value bound by `let config_contents = ..`
config_contents == returned[Len(returned)]

\* main.rs:6 and 7, println! of the contents inside the closure.  When a write
\* to standard output fails println! panics, inside catch_unwind.
PrintContents ==
    /\ pc = "returned"
    /\ LET line == ContentsLines(config_contents)
       IN  \/ /\ stdout' = stdout \o line
              /\ result' = "Ok"
              /\ UNCHANGED stderr
           \/ \E written \in ProperPrefixes(line) :
                 /\ stdout' = stdout \o written
                 /\ result' = "Err"
                 /\ stderr' = Append(stderr, <<"failed printing to stdout", "Os">>)
    /\ pc' = "match"
    /\ UNCHANGED <<fsKind, fileBytes, handles, pos, contents, returned, outcomes,
                   exitCode, loaderCalls, openCalls, readCalls>>

CatchUnwindEscapes ==
    /\ pc = "panicked"
    /\ pc' = "done"
    /\ exitCode' = 101
    /\ UNCHANGED <<fsKind, fileBytes, handles, pos, contents, returned, outcomes,
                   result, stdout, stderr, loaderCalls, openCalls, readCalls>>

\* main.rs:4 and 7, catch_unwind stops the unwinding of read_config's panic
CatchUnwind ==
    /\ pc = "panicked"
    /\ result' = "Err"
    /\ pc' = "match"
    /\ UNCHANGED <<fsKind, fileBytes, handles, pos, contents, returned, outcomes,
                   stdout, stderr, exitCode, loaderCalls, openCalls, readCalls>>

ResultLineByOutcome(r) ==
    IF r = "Ok" THEN SuccessLine
    ELSE IF outcomes[Len(outcomes)] = "read_failed"
    THEN <<FailureText, FailureText, Newline>>
    ELSE FailureLine

\* main.rs:8-11, the line each arm of the match prints
ResultLine(r) == IF r = "Ok" THEN SuccessLine ELSE FailureLine

\* main.rs:8-12, the match on result and the end of main.  The println! is
\* outside catch_unwind: when its write fails the panic ends the process with
\* status 101.
MatchResult ==
    /\ pc = "match"
    /\ LET line == ResultLine(result)
       IN  \/ /\ stdout' = stdout \o line
              /\ exitCode' = 0
              /\ UNCHANGED stderr
           \/ \E written \in ProperPrefixes(line) :
                 /\ stdout' = stdout \o written
                 /\ exitCode' = 101
                 /\ stderr' = Append(stderr, <<"failed printing to stdout", "Os">>)
    /\ pc' = "done"
    /\ UNCHANGED <<fsKind, fileBytes, handles, pos, contents, returned, outcomes,
                   result, loaderCalls, openCalls, readCalls>>

read_config == Open \/ ReadToString \/ ReadChunk \/ ReadIoError \/ ReadEnd \/ Return

Next == MainCall \/ read_config \/ PrintContents \/ CatchUnwind \/ MatchResult

Spec == Init /\ [][Next]_vars

\* The thread is never starved and every system call returns.
FairSpec == Spec /\ WF_vars(Next)

(***************************************************************************)
(* read_config called twice in succession on the same, unchanged file.     *)
(***************************************************************************)
\* the first call, and the second one once the first has returned
TwiceCall ==
    /\ pc = "start" \/ (pc = "returned" /\ loaderCalls < 2)
    /\ loaderCalls' = loaderCalls + 1
    /\ pc' = "open"
    /\ UNCHANGED <<fsKind, fileBytes, handles, pos, contents, returned, outcomes,
                   result, stdout, stderr, exitCode, openCalls, readCalls>>

\* the second call has returned, or a call has panicked with nothing to stop it
TwiceEnd ==
    /\ \/ pc = "returned" /\ loaderCalls = 2 /\ exitCode' = 0
       \/ pc = "panicked" /\ exitCode' = 101
    /\ pc' = "done"
    /\ UNCHANGED <<fsKind, fileBytes, handles, pos, contents, returned, outcomes,
                   result, stdout, stderr, loaderCalls, openCalls, readCalls>>

NextTwice == TwiceCall \/ read_config \/ TwiceEnd

SpecTwice == Init /\ [][NextTwice]_vars

(***************************************************************************)
(* Properties.                                                             *)
(***************************************************************************)
Contains(s, x) == \E i \in 1..Len(s) : s[i] = x

Count(s, x) == Cardinality({i \in 1..Len(s) : s[i] = x})

EndsWith(s, t) ==
    /\ Len(t) <= Len(s)
    /\ SubSeq(s, Len(s) - Len(t) + 1, Len(s)) = t

LastOutcome == IF outcomes = <<>> THEN "none" ELSE outcomes[Len(outcomes)]

LoaderFailed == LastOutcome \in {"open_failed", "read_failed"}

\* A read of the file failed with an I/O error.
IoErrorSeen == Contains(stderr, <<"Failed to read config file", "Os">>)

\* C1: every value read_config returns is the whole byte content of the file,
\* in file order, and is the file's text (the same characters when decoded);
\* and a call on an existing, permitted file of valid text whose reads meet no
\* I/O error ends by returning, the empty file included.
C1_ReturnsFileText ==
    /\ \A i \in 1..Len(returned) :
          /\ returned[i] = fileBytes
          /\ Utf8Valid(returned[i])
          /\ Decode(returned[i]) = Decode(fileBytes)
    /\ \A i \in 1..Len(outcomes) :
          (fsKind = "file" /\ Utf8Valid(fileBytes) /\ ~IoErrorSeen)
              => outcomes[i] = "returned"

\* A file of three bytes holding a two-byte character has been returned.
C1_Witness ==
    /\ Len(returned) = 1
    /\ Len(returned[1]) = 3
    /\ Contains(returned[1], 195)
    /\ Len(Decode(returned[1])) = 2

\* C2 as stated: when config.txt does not exist the call fails at the open
\* step and, once main has ended, standard output holds exactly the generic
\* failure line (and so no header).
C2_Original ==
    (fsKind = "missing" /\ pc = "done")
        => /\ outcomes = <<"open_failed">>
           /\ readCalls = 0
           /\ stdout = FailureLine

\* C2 amended: when config.txt does not exist the call fails at the open step
\* with NotFound, no read is attempted and no part of the header is ever
\* written; standard output holds the whole failure line when the write of it
\* succeeds (exit status 0), and a proper prefix of it when that write fails
\* (println! panics outside the guard, exit status 101).
C2_MissingFile ==
    fsKind = "missing"
        => /\ ~Contains(stdout, HeaderText)
           /\ readCalls = 0
           /\ pc \in {"panicked", "match", "done"}
                 => /\ outcomes = <<"open_failed">>
                    /\ stderr[1] = <<"Failed to open config file", "NotFound">>
           /\ pc = "done"
                 => IF exitCode = 0
                    THEN stdout = FailureLine
                    ELSE exitCode = 101 /\ stdout \in ProperPrefixes(FailureLine)

\* The run on a missing file has ended with the failure line printed.
C2_Witness ==
    /\ fsKind = "missing"
    /\ pc = "done"
    /\ openCalls = 1
    /\ stdout = FailureLine
    /\ exitCode = 0

\* C3 as stated: after any failure of read_config, standard output at the end
\* of main is the generic failure line and nothing else.
C3_Original ==
    (pc = "done" /\ LoaderFailed) => stdout = FailureLine

\* C3 amended: after any failure of read_config (open: missing or denied; read:
\* I/O error or invalid text) standard output is the same as in the missing
\* file case: nothing before the match, then the whole failure line when the
\* write of it succeeds (exit status 0) and a proper prefix of it when that
\* write fails (exit status 101).  The failure kind shows on stderr only.
C3_FailureOutput ==
    LoaderFailed
        => /\ result \in {"none", "Err"}
           /\ pc # "done" => stdout = <<>>
           /\ pc = "done"
                 => IF exitCode = 0
                    THEN stdout = FailureLine
                    ELSE exitCode = 101 /\ stdout \in ProperPrefixes(FailureLine)

\* A run whose read failed on invalid text, after bytes had been read, has
\* ended with the failure line printed.
C3_Witness ==
    /\ pc = "done"
    /\ outcomes = <<"read_failed">>
    /\ stderr = << <<"Failed to read config file", "InvalidData">> >>
    /\ pos > 0
    /\ stdout = FailureLine

\* C4: when read_config has returned C and main has ended normally, standard
\* output is the header line, C and a newline, then the success line, and
\* nothing else; the success line is never written before the content.
C4_SuccessOutput ==
    /\ (pc = "done" /\ exitCode = 0 /\ LastOutcome = "returned")
          => stdout = ContentsLines(returned[1]) \o SuccessLine
    /\ Contains(stdout, SuccessText)
          => /\ Len(returned) = 1
             /\ SubSeq(stdout, 1, Len(returned[1]) + 3) = ContentsLines(returned[1])

\* C5: a failed call hands its caller nothing: each value handed to a caller
\* belongs to a call that returned and is the whole file; after a failure
\* (also one met after bytes were read) the String is gone, main holds no
\* content and writes neither the header nor any byte of the file.
C5_AllOrNothing ==
    /\ Len(returned) = Count(outcomes, "returned")
    /\ \A i \in 1..Len(returned) : returned[i] = fileBytes
    /\ LoaderFailed
          => /\ returned = <<>>
             /\ contents = <<>>
             /\ \A i \in 1..Len(stdout) : stdout[i] \in {FailureText, Newline}
             /\ Len(stdout) <= Len(FailureLine)

\* A read failed with an I/O error after bytes of the file had been read.
C5_Witness ==
    /\ outcomes = <<"read_failed">>
    /\ IoErrorSeen
    /\ pos > 0
    /\ pos < Len(fileBytes)
    /\ pc = "done"
    /\ returned = <<>>

\* C6: the handle is open exactly while read_config runs past a successful
\* open: none is held before the call, after a failed open, after a return or
\* after a failed read.
C6_HandleReleased ==
    handles = IF pc \in {"opened", "reading", "return"} THEN 1 ELSE 0

\* A read failed on an open handle and the call has unwound.
C6_Witness ==
    /\ pc = "panicked"
    /\ outcomes = <<"read_failed">>
    /\ readCalls = 1
    /\ handles = 0

\* C7 as stated: every run of main ends, and ends with exit status 0.
C7_Original ==
    /\ <>(pc = "done")
    /\ [](pc = "done" => exitCode = 0)

\* C7 amended: every run of main ends; a panic of read_config never ends the
\* process: main always reaches its match with the guard's value; the exit
\* status is 0 when the final line was written whole, and 101 exactly when the
\* write of the final line failed (println! panics outside the guard).
C7_Terminates ==
    /\ <>(pc = "done")
    /\ [](pc = "done"
            => /\ result \in {"Ok", "Err"}
               /\ LoaderFailed => result = "Err"
               /\ IF EndsWith(stdout, ResultLine(result))
                  THEN exitCode = 0
                  ELSE /\ exitCode = 101
                       /\ stderr[Len(stderr)] = <<"failed printing to stdout", "Os">>)

\* A run whose read failed has ended with exit status 0.
C7_Witness ==
    /\ pc = "done"
    /\ outcomes = <<"read_failed">>
    /\ exitCode = 0

\* C8: two calls in succession on the unchanged file return the same content,
\* and between the calls nothing of the first is left: no handle, no buffer.
C8_Idempotent ==
    /\ Len(returned) = 2 => returned[1] = returned[2]
    /\ pc = "returned" => handles = 0 /\ contents = <<>>

\* Both calls have returned a file of three bytes.
C8_Witness ==
    /\ loaderCalls = 2
    /\ Len(returned) = 2
    /\ Len(returned[2]) = 3

\* C9: main calls read_config once; a call opens once and reads at most once,
\* reads only after a successful open, and ends at its first failure.
C9_NoRetry ==
    /\ loaderCalls <= 1
    /\ openCalls <= loaderCalls
    /\ readCalls <= openCalls
    /\ readCalls = 1 => OpenSucceeds /\ ~Contains(outcomes, "open_failed")
    /\ Len(outcomes) <= 1
    /\ LoaderFailed => pc \in {"panicked", "match", "done"}
    /\ pc = "done" => loaderCalls = 1 /\ openCalls = 1 /\ Len(outcomes) = 1
    /\ LastOutcome = "read_failed" => readCalls = 1

\* The open failed and main has ended after one call and one open.
C9_Witness ==
    /\ pc = "done"
    /\ outcomes = <<"open_failed">>
    /\ loaderCalls = 1
    /\ openCalls = 1
    /\ readCalls = 0

\* C10: main reaches Failed only because read_config aborted: the guard's
\* value is Err only when the call failed, the failure line is never written
\* in a run in which the header was written, and the two final lines are never
\* both written nor one of them twice.
C10_FailedOnlyByLoader ==
    /\ result = "Err" => LoaderFailed
    /\ Contains(stdout, FailureText) => ~Contains(stdout, HeaderText)
    /\ Count(stdout, SuccessText) + Count(stdout, FailureText) <= 1

====
